---- MODULE Spec2Model ----
(***************************************************************************)
(* Row-to-value decoding engine of crabybase-db (src/sqlite.rs):           *)
(* parse_column, parse_row, parse_rows and parse_rows_dynamic.             *)
(*                                                                         *)
(* A text is a sequence of one-character strings.  A stored cell is        *)
(* <<storage class, payload>> (rusqlite ValueRef).  A serde_json Value is  *)
(* <<kind, payload>>.  An f64 is <<"finite", tenths>> or <<"inf", 0>>:     *)
(* fixed point in tenths, so 2.0 is <<"finite", 20>> and differs from the  *)
(* integer 2.                                                              *)
(***************************************************************************)
EXTENDS Integers, Sequences, FiniteSets, TLC

VARIABLES entry, target, columns, rows, pc, pos, i, column_data, parsed_row,
          rows_data, result, fetched, decoded

vars == <<entry, target, columns, rows, pc, pos, i, column_data, parsed_row,
          rows_data, result, fetched, decoded>>

\* ---------------------------------------------------------------- bounds
MaxCols == 2
MaxRows == 2
MaxCells == 4

\* ------------------------------------------------------ serde_json Value
VNull == <<"null", 0>>
VBool(b) == <<"bool", b>>
VInt(n) == <<"int", n>>
VFloat(t) == <<"float", t>>
VStr(s) == <<"string", s>>
VArr(xs) == <<"array", xs>>
VObj(m) == <<"object", m>>

EmptyMap == [k \in {} |-> VNull]

\* serde_json::Map::insert: the key is added, or its value replaced.
MapInsertFirstWins(m, k, v) == IF k \in DOMAIN m THEN m
                               ELSE [x \in DOMAIN m \cup {k} |-> IF x = k THEN v ELSE m[x]]
MapInsertFresh(m, k, v) == [x \in {k} |-> v]
MapInsert(m, k, v) == [x \in DOMAIN m \cup {k} |-> IF x = k THEN v ELSE m[x]]

Ok(v) == <<"Ok", v>>
\* The row index in an error is a ghost: it names the cell the error came from.
Err(kind, r, c) == <<"Err", <<kind, r, c>>>>
Panic(msg) == <<"Panic", msg>>
NoResult == <<"None", 0>>

IsOk(res) == res[1] = "Ok"
IsErr(res) == res[1] = "Err"
IsPanic(res) == res[1] = "Panic"

\* ------------------------------------------------- serde_json::from_str
\* A recursive-descent reading of the JSON grammar over the texts used here: arrays,
\* objects, strings without escapes, unsigned integers without leading zeros, the
\* literals true, false and null, and spaces between tokens.
Digits == {"0", "1", "2", "3", "4", "5", "6", "7", "8", "9"}
DigitVal(c) == CASE c = "0" -> 0 [] c = "1" -> 1 [] c = "2" -> 2 [] c = "3" -> 3
                 [] c = "4" -> 4 [] c = "5" -> 5 [] c = "6" -> 6 [] c = "7" -> 7
                 [] c = "8" -> 8 [] OTHER -> 9

PFail == <<FALSE, VNull, 0>>
POk(v, next) == <<TRUE, v, next>>

RECURSIVE SkipWs(_, _)
SkipWs(s, p) == IF p <= Len(s) /\ s[p] = " " THEN SkipWs(s, p + 1) ELSE p

RECURSIVE ScanString(_, _, _)
\* after the opening quote: characters up to the closing quote (no escapes)
ScanString(s, p, acc) ==
  IF p > Len(s) THEN PFail
  ELSE IF s[p] = "\"" THEN <<TRUE, acc, p + 1>>
  ELSE IF s[p] = "\\" THEN PFail
  ELSE ScanString(s, p + 1, Append(acc, s[p]))

RECURSIVE ScanDigits(_, _, _)
ScanDigits(s, p, acc) ==
  IF p <= Len(s) /\ s[p] \in Digits THEN ScanDigits(s, p + 1, 10 * acc + DigitVal(s[p]))
  ELSE <<TRUE, acc, p>>

IsWord(s, p, w) == /\ p + Len(w) - 1 <= Len(s)
                   /\ \A k \in 1..Len(w) : s[p + k - 1] = w[k]

RECURSIVE ParseValue(_, _)
RECURSIVE ParseElems(_, _, _)
RECURSIVE ParseMembers(_, _, _)

ParseValue(s, p0) ==
  LET p == SkipWs(s, p0) IN
  IF p > Len(s) THEN PFail
  ELSE IF s[p] = "[" THEN
    LET q == SkipWs(s, p + 1) IN
    IF q <= Len(s) /\ s[q] = "]" THEN POk(VArr(<<>>), q + 1) ELSE ParseElems(s, q, <<>>)
  ELSE IF s[p] = "{" THEN
    LET q == SkipWs(s, p + 1) IN
    IF q <= Len(s) /\ s[q] = "}" THEN POk(VObj(EmptyMap), q + 1)
    ELSE ParseMembers(s, q, EmptyMap)
  ELSE IF s[p] = "\"" THEN
    LET r == ScanString(s, p + 1, <<>>) IN
    IF r[1] THEN POk(VStr(r[2]), r[3]) ELSE PFail
  ELSE IF s[p] \in Digits THEN
    IF s[p] = "0" /\ p + 1 <= Len(s) /\ s[p + 1] \in Digits THEN PFail
    ELSE LET r == ScanDigits(s, p, 0) IN POk(VInt(r[2]), r[3])
  ELSE IF IsWord(s, p, <<"t", "r", "u", "e">>) THEN POk(VBool(TRUE), p + 4)
  ELSE IF IsWord(s, p, <<"f", "a", "l", "s", "e">>) THEN POk(VBool(FALSE), p + 5)
  ELSE IF IsWord(s, p, <<"n", "u", "l", "l">>) THEN POk(VNull, p + 4)
  ELSE PFail

ParseElems(s, p, acc) ==
  LET r == ParseValue(s, p) IN
  IF ~r[1] THEN PFail
  ELSE LET q == SkipWs(s, r[3]) IN
       IF q > Len(s) THEN PFail
       ELSE IF s[q] = "," THEN ParseElems(s, q + 1, Append(acc, r[2]))
       ELSE IF s[q] = "]" THEN POk(VArr(Append(acc, r[2])), q + 1)
       ELSE PFail

ParseMembers(s, p0, acc) ==
  LET p == SkipWs(s, p0) IN
  IF p > Len(s) \/ s[p] # "\"" THEN PFail
  ELSE LET k == ScanString(s, p + 1, <<>>) IN
       IF ~k[1] THEN PFail
       ELSE LET c == SkipWs(s, k[3]) IN
            IF c > Len(s) \/ s[c] # ":" THEN PFail
            ELSE LET r == ParseValue(s, c + 1) IN
                 IF ~r[1] THEN PFail
                 ELSE LET q == SkipWs(s, r[3]) IN
                      IF q > Len(s) THEN PFail
                      ELSE IF s[q] = "," THEN ParseMembers(s, q + 1, MapInsert(acc, k[2], r[2]))
                      ELSE IF s[q] = "}" THEN POk(VObj(MapInsert(acc, k[2], r[2])), q + 1)
                      ELSE PFail

\* serde_json::from_str: one value, then only whitespace up to the end.
from_str(s) ==
  LET r == ParseValue(s, 1) IN
  IF r[1] /\ SkipWs(s, r[3]) = Len(s) + 1 THEN <<TRUE, r[2]>> ELSE <<FALSE, VNull>>

\* --------------------------------------------------------- stored cells
CNull == <<"Null", 0>>
CInt(n) == <<"Integer", n>>
CReal(f) == <<"Real", f>>
CText(s) == <<"Text", s>>
CBlob(b) == <<"Blob", b>>

Finite(t) == <<"finite", t>>
Inf == <<"inf", 0>>

\* i64 as f64
IntToF64(n) == Finite(10 * n)

\* json!(f64): Number::from_f64 is None for a non-finite value, which maps to Null.
JsonOfF64(f) == IF f[1] = "finite" THEN VFloat(f[2]) ELSE VNull

\* json!(Vec<u8>): a sequence serializes as an array of numbers.
JsonOfBytes(b) == VArr([k \in 1..Len(b) |-> VInt(b[k])])

\* ------------------------------------------------ the column decoders
\* Each returns <<TRUE, value>> or <<FALSE, error kind>>; row.get(index) fails
\* with InvalidColumnType when the storage class is not the one asked for.
parse_json_column(cell) ==
  IF cell[1] # "Text" THEN <<FALSE, "InvalidColumnType">>
  ELSE LET r == from_str(cell[2]) IN
       IF r[1] THEN <<TRUE, r[2]>> ELSE <<FALSE, "JsonSyntax">>

parse_text_column(cell) ==
  IF cell[1] = "Text" THEN <<TRUE, VStr(cell[2])>> ELSE <<FALSE, "InvalidColumnType">>

parse_integer_column_nullable(cell) ==
  IF cell[1] = "Integer" THEN <<TRUE, VInt(cell[2])>>
  ELSE IF cell[1] = "Null" THEN <<TRUE, VNull>>
  ELSE <<FALSE, "InvalidColumnType">>
parse_integer_column(cell) ==
  IF cell[1] = "Integer" THEN <<TRUE, VInt(cell[2])>> ELSE <<FALSE, "InvalidColumnType">>

parse_real_column(cell) ==
  IF cell[1] = "Real" THEN <<TRUE, JsonOfF64(cell[2])>>
  ELSE IF cell[1] = "Integer" THEN <<TRUE, JsonOfF64(IntToF64(cell[2]))>>
  ELSE <<FALSE, "InvalidColumnType">>

parse_blob_column(cell) ==
  IF cell[1] = "Blob" THEN <<TRUE, JsonOfBytes(cell[2])>> ELSE <<FALSE, "InvalidColumnType">>

\* Column::decl_type() is an Option<&str>: <<>> is None, <<l>> is Some(l).
None == <<>>
Some(l) == <<l>>

Recognized(decl_type) ==
  decl_type \in {Some("JSON"), Some("TEXT"), Some("INTEGER"), Some("REAL"), Some("BLOB")}

PanicMessage(decl_type) ==
  IF decl_type = None THEN <<"Unknown column type", "UNKNOWN">>
  ELSE <<"Unknown column type", decl_type[1]>>

\* parse_column: <<"Ok", v>>, <<"Err", kind>> or <<"Panic", msg>>
Lift(r) == IF r[1] THEN <<"Ok", r[2]>> ELSE <<"Err", r[2]>>

parse_column_swapped(cell, decl_type) ==
  IF decl_type = Some("JSON") THEN Lift(parse_json_column(cell))
  ELSE IF decl_type = Some("TEXT") THEN Lift(parse_text_column(cell))
  ELSE IF decl_type = Some("INTEGER") THEN Lift(parse_real_column(cell))
  ELSE IF decl_type = Some("REAL") THEN Lift(parse_integer_column(cell))
  ELSE IF decl_type = Some("BLOB") THEN Lift(parse_blob_column(cell))
  ELSE <<"Panic", PanicMessage(decl_type)>>

parse_column_default_text(cell, decl_type) ==
  IF decl_type = Some("JSON") THEN Lift(parse_json_column(cell))
  ELSE IF decl_type = Some("INTEGER") THEN Lift(parse_integer_column(cell))
  ELSE IF decl_type = Some("REAL") THEN Lift(parse_real_column(cell))
  ELSE IF decl_type = Some("BLOB") THEN Lift(parse_blob_column(cell))
  ELSE Lift(parse_text_column(cell))

parse_column_returns_err(cell, decl_type) ==
  IF decl_type = Some("JSON") THEN Lift(parse_json_column(cell))
  ELSE IF decl_type = Some("TEXT") THEN Lift(parse_text_column(cell))
  ELSE IF decl_type = Some("INTEGER") THEN Lift(parse_integer_column(cell))
  ELSE IF decl_type = Some("REAL") THEN Lift(parse_real_column(cell))
  ELSE IF decl_type = Some("BLOB") THEN Lift(parse_blob_column(cell))
  ELSE <<"Err", "UnsupportedColumnType">>

parse_column(cell, decl_type) ==
  IF decl_type = Some("JSON") THEN Lift(parse_json_column(cell))
  ELSE IF decl_type = Some("TEXT") THEN Lift(parse_text_column(cell))
  ELSE IF decl_type = Some("INTEGER") THEN Lift(parse_integer_column(cell))
  ELSE IF decl_type = Some("REAL") THEN Lift(parse_real_column(cell))
  ELSE IF decl_type = Some("BLOB") THEN Lift(parse_blob_column(cell))
  ELSE <<"Panic", PanicMessage(decl_type)>>


\* ------------------------------------------- serde_json::from_value::<T>
\* The caller's target type T.  "Value" is serde_json::Value itself (every tree
\* converts, unchanged); "IdRecord" is a struct with the one field id: i64
\* (other keys are ignored, a missing or non-integer id is rejected).
Targets == {"Value", "IdRecord"}

from_value(T, v) ==
  IF T = "Value" THEN <<TRUE, v>>
  ELSE IF "id" \in DOMAIN v[2] /\ v[2]["id"][1] = "int" THEN <<TRUE, [id |-> v[2]["id"][2]]>>
  ELSE <<FALSE, VNull>>

\* ----------------------------------------------------------- the inputs
Names == {"id", "v"}
Labels == {Some("INTEGER"), Some("JSON"), Some("FOO"), None}
ColumnSet == [name : Names, decl_type : Labels]
TextOne == <<"[", "1", "]">>
TextHi == <<"h", "i">>
Cells == {CNull, CInt(1), CInt(2), CText(TextOne), CText(TextHi)}

Collectors == {"parse_rows", "parse_rows_dynamic"}

Shapes == {sh \in (0..MaxCols) \X (0..MaxRows) : sh[1] * sh[2] <= MaxCells}

\* rows.push(..) on the accumulated vector
PushFront(acc, v) == <<v>> \o acc
Push(acc, v) == Append(acc, v)

\* the ? operator of parse_rows / parse_rows_dynamic: the error is returned and
\* rows_data is dropped
TryKeepPrefix(e, acc) == Ok(acc)
Try(e, acc) == e

\* Ok(rows_data) once rows.next() returns None
EndOfRowsClassifying(cols, acc) ==
  IF \E c \in 1..Len(cols) : ~Recognized(cols[c].decl_type)
  THEN Panic(PanicMessage(cols[CHOOSE c \in 1..Len(cols) : ~Recognized(cols[c].decl_type)].decl_type))
  ELSE Ok(acc)
EndOfRows(cols, acc) == Ok(acc)

\* ------------------------------------------------------------ the state
\* entry        the public function called
\* target       T of parse_rows::<T>
\* columns,rows the column metadata and the rows the statement will yield
\* pc           "next": at rows.next(); "col": in parse_row's loop; "done"
\* pos          rows yielded so far (the current row is rows[pos])
\* i            parse_row's loop index (1-based)
\* parsed_row   the value parse_row returned for rows[pos] (VNull until it returns)
\* fetched      ghost: indices of the rows yielded by rows.next(), in order
\* decoded      ghost: the cells <<row, column>> a decoder was invoked on, in order
Init ==
  /\ entry \in Collectors \cup {"parse_row"}
  /\ target \in IF entry = "parse_rows" THEN Targets ELSE {"none"}
  /\ \E sh \in Shapes :
       /\ entry = "parse_row" => sh[2] = 1
       /\ columns \in [1..sh[1] -> ColumnSet]
       /\ rows \in [1..sh[2] -> [1..sh[1] -> Cells]]
  /\ pc = IF entry = "parse_row" THEN "col" ELSE "next"
  /\ pos = IF entry = "parse_row" THEN 1 ELSE 0
  /\ i = 1
  /\ column_data = EmptyMap
  /\ parsed_row = VNull
  /\ rows_data = <<>>
  /\ result = NoResult
  /\ fetched = <<>>
  /\ decoded = <<>>

\* rows.next()? yields Some(row)
NextRowSome ==
  /\ pc = "next" /\ pos < Len(rows)
  /\ pos' = pos + 1
  /\ fetched' = Append(fetched, pos + 1)
  /\ i' = 1
  /\ column_data' = EmptyMap
  /\ parsed_row' = VNull
  /\ pc' = "col"
  /\ UNCHANGED <<entry, target, columns, rows, rows_data, result, decoded>>

\* rows.next()? yields None: the loop ends and the function returns Ok(rows_data)
NextRowNone ==
  /\ pc = "next" /\ pos = Len(rows)
  /\ result' = EndOfRows(columns, rows_data)
  /\ pc' = "done"
  /\ UNCHANGED <<entry, target, columns, rows, pos, i, column_data, parsed_row,
                 rows_data, fetched, decoded>>

\* rows.next()? fails (the storage engine's step reports an error)
NextRowErr ==
  /\ pc = "next"
  /\ result' = Try(Err("StepFailed", pos + 1, 0), rows_data)
  /\ pc' = "done"
  /\ UNCHANGED <<entry, target, columns, rows, pos, i, column_data, parsed_row,
                 rows_data, fetched, decoded>>

\* one iteration of parse_row's loop: parse_column(row, &columns[i], i)? and insert
ParseColumn ==
  /\ pc = "col" /\ i <= Len(columns)
  /\ LET r == parse_column(rows[pos][i], columns[i].decl_type) IN
       /\ decoded' = IF r[1] = "Panic" THEN decoded ELSE Append(decoded, <<pos, i>>)
       /\ IF r[1] = "Ok"
          THEN /\ column_data' = MapInsert(column_data, columns[i].name, r[2])
               /\ i' = i + 1
               /\ UNCHANGED <<pc, result>>
          ELSE /\ result' = IF r[1] = "Panic" THEN Panic(r[2])
                            ELSE Try(Err(r[2], pos, i), rows_data)
               /\ pc' = "done"
               /\ UNCHANGED <<column_data, i>>
  /\ UNCHANGED <<entry, target, columns, rows, pos, parsed_row, rows_data, fetched>>

\* parse_row called directly: Ok(json!(column_data))
FinishRowSingle ==
  /\ pc = "col" /\ i > Len(columns) /\ entry = "parse_row"
  /\ parsed_row' = VObj(column_data)
  /\ result' = Ok(parsed_row')
  /\ pc' = "done"
  /\ UNCHANGED <<entry, target, columns, rows, pos, i, column_data, rows_data,
                 fetched, decoded>>

\* parse_rows_dynamic: rows_data.push(parse_row(..)?)
FinishRowDynamic ==
  /\ pc = "col" /\ i > Len(columns) /\ entry = "parse_rows_dynamic"
  /\ parsed_row' = VObj(column_data)
  /\ rows_data' = Push(rows_data, parsed_row')
  /\ pc' = "next"
  /\ UNCHANGED <<entry, target, columns, rows, pos, i, column_data, result,
                 fetched, decoded>>

FinishRowTypedSkipping ==
  /\ pc = "col" /\ i > Len(columns) /\ entry = "parse_rows"
  /\ parsed_row' = VObj(column_data)
  /\ LET t == from_value(target, parsed_row') IN
       rows_data' = IF t[1] THEN Push(rows_data, t[2]) ELSE rows_data
  /\ pc' = "next"
  /\ UNCHANGED <<entry, target, columns, rows, pos, i, column_data, result,
                 fetched, decoded>>

\* parse_rows: rows_data.push(serde_json::from_value::<T>(parsed_row)?)
FinishRowTyped ==
  /\ pc = "col" /\ i > Len(columns) /\ entry = "parse_rows"
  /\ parsed_row' = VObj(column_data)
  /\ LET t == from_value(target, parsed_row') IN
       IF t[1]
       THEN /\ rows_data' = Push(rows_data, t[2])
            /\ pc' = "next"
            /\ UNCHANGED result
       ELSE /\ result' = Try(Err("Conversion", pos, 0), rows_data)
            /\ pc' = "done"
            /\ UNCHANGED rows_data
  /\ UNCHANGED <<entry, target, columns, rows, pos, i, column_data, fetched, decoded>>

Next ==
  \/ NextRowSome
  \/ NextRowNone
  \/ NextRowErr
  \/ ParseColumn
  \/ FinishRowSingle
  \/ FinishRowDynamic
  \/ FinishRowTyped

Spec == Init /\ [][Next]_vars


\* ------------------------------------------------ parse_column on its own
\* Every declared label against every kind of stored cell.
AllLabels == {Some("JSON"), Some("TEXT"), Some("INTEGER"), Some("REAL"), Some("BLOB"),
              Some("FOO"), Some("text"), Some("Integer"), None}

TextList == <<"[", "1", ",", "2", "]">>
TextObject == <<"{", "\"", "a", "\"", ":", "t", "r", "u", "e", "}">>
TextNested == <<"{", "\"", "k", "\"", ":", " ", "[", "1", "0", ",", "{", "\"", "b", "\"",
                ":", "n", "u", "l", "l", "}", "]", "}", " ">>
TextTruncated == <<"[", "1", ",">>
TextTrailing == <<"1", " ", "2">>

AllCells == {CNull, CInt(42), CReal(Finite(15)), CReal(Finite(20)), CReal(Inf),
             CText(TextHi), CText(TextList), CText(TextObject), CText(TextNested),
             CText(TextTruncated), CText(TextTrailing), CBlob(<<0, 255>>), CBlob(<<>>)}

InitCol ==
  /\ entry = "parse_column"
  /\ target = "none"
  /\ columns \in [1..1 -> [name : {"id"}, decl_type : AllLabels]]
  /\ rows \in [1..1 -> [1..1 -> AllCells]]
  /\ pc = "cell"
  /\ pos = 1
  /\ i = 1
  /\ column_data = EmptyMap
  /\ parsed_row = VNull
  /\ rows_data = <<>>
  /\ result = NoResult
  /\ fetched = <<>>
  /\ decoded = <<>>

ApplyParseColumn ==
  /\ pc = "cell"
  /\ LET r == parse_column(rows[pos][i], columns[i].decl_type) IN
       result' = IF r[1] = "Ok" THEN Ok(r[2])
                 ELSE IF r[1] = "Panic" THEN Panic(r[2])
                 ELSE Err(r[2], pos, i)
  /\ pc' = "done"
  /\ UNCHANGED <<entry, target, columns, rows, pos, i, column_data, parsed_row,
                 rows_data, fetched, decoded>>

NextCol == ApplyParseColumn

SpecCol == InitCol /\ [][NextCol]_vars

\* ------------------------------------------------------------------ C8
TheLabel == columns[1].decl_type
TheCell == rows[1][1]

\* The value tree each well-formed JSON text of AllCells denotes, written out.
WellFormedTexts == {TextOne, TextList, TextObject, TextNested}
TreeOf(t) ==
  IF t = TextOne THEN VArr(<<VInt(1)>>)
  ELSE IF t = TextList THEN VArr(<<VInt(1), VInt(2)>>)
  ELSE IF t = TextObject THEN VObj([k \in {<<"a">>} |-> VBool(TRUE)])
  ELSE VObj([k \in {<<"k">>} |->
               VArr(<<VInt(10), VObj([b \in {<<"b">>} |-> VNull])>>)])

FiveLabels == {"JSON", "TEXT", "INTEGER", "REAL", "BLOB"}

C8_Common ==
  /\ (TheLabel = Some("JSON") /\ TheCell[1] = "Text" /\ TheCell[2] \in WellFormedTexts)
       => result = Ok(TreeOf(TheCell[2]))
  /\ (TheLabel = Some("TEXT") /\ TheCell[1] = "Text") => result = Ok(VStr(TheCell[2]))
  /\ (TheLabel = Some("INTEGER") /\ TheCell[1] = "Integer") => result = Ok(VInt(TheCell[2]))
  /\ (\A l \in FiveLabels : TheLabel # Some(l)) => IsPanic(result)

\* C8 as stated: exact, case-sensitive dispatch, and a valid cell of a JSON, TEXT,
\* INTEGER, REAL or BLOB column gives the parsed tree, a string leaf, an integer leaf,
\* a floating-point leaf or a byte-sequence leaf respectively.
C8_AsStated ==
  (entry = "parse_column" /\ pc = "done") =>
    /\ C8_Common
    /\ (TheLabel = Some("REAL") /\ TheCell[1] = "Real")
         => (IsOk(result) /\ result[2][1] = "float")
    /\ (TheLabel = Some("BLOB") /\ TheCell[1] = "Blob")
         => (IsOk(result) /\ result[2][1] = "bytes")

\* C8 (amended): as stated for JSON, TEXT and INTEGER and for unrecognized labels;
\* a REAL cell gives a floating-point leaf when finite and the null leaf when
\* infinite; a BLOB cell gives an ordered list with one integer leaf per byte.
C8_Dispatch ==
  (entry = "parse_column" /\ pc = "done") =>
    /\ C8_Common
    /\ (TheLabel = Some("REAL") /\ TheCell[1] = "Real") =>
         result = Ok(IF TheCell[2][1] = "finite" THEN <<"float", TheCell[2][2]>>
                     ELSE <<"null", 0>>)
    /\ (TheLabel = Some("BLOB") /\ TheCell[1] = "Blob") =>
         /\ IsOk(result)
         /\ result[2][1] = "array"
         /\ Len(result[2][2]) = Len(TheCell[2])
         /\ \A k \in 1..Len(TheCell[2]) : result[2][2][k] = <<"int", TheCell[2][k]>>

C8_Witness ==
  /\ entry = "parse_column" /\ pc = "done"
  /\ TheLabel = Some("BLOB") /\ TheCell = CBlob(<<0, 255>>)
  /\ result = Ok(<<"array", << <<"int", 0>>, <<"int", 255>> >> >>)


\* ------------------------------------------------ vocabulary of the claims
\* What the claims say about a result set, stated on the inputs alone.
NumRows == Len(rows)
NumCols == Len(columns)
ColIdx == 1..NumCols
RowIdx == 1..NumRows

UnknownLabel(c) == \A l \in FiveLabels : columns[c].decl_type # Some(l)
HasUnknown == \E c \in ColIdx : UnknownLabel(c)
\* 0 when every label is recognized
FirstUnknown ==
  IF HasUnknown
  THEN CHOOSE c \in ColIdx : UnknownLabel(c) /\ \A d \in 1..(c - 1) : ~UnknownLabel(d)
  ELSE 0

\* the stored value can be read as the declared type
Compatible(decl_type, cell) ==
  \/ decl_type = Some("JSON") /\ cell[1] = "Text" /\ cell[2] \in WellFormedTexts
  \/ decl_type = Some("TEXT") /\ cell[1] = "Text"
  \/ decl_type = Some("INTEGER") /\ cell[1] = "Integer"
  \/ decl_type = Some("REAL") /\ cell[1] \in {"Real", "Integer"}
  \/ decl_type = Some("BLOB") /\ cell[1] = "Blob"

\* a cell of a recognized column that cannot be decoded
Undecodable(r, c) == ~UnknownLabel(c) /\ ~Compatible(columns[c].decl_type, rows[r][c])
RowDecodes(r) == \A c \in ColIdx : ~UnknownLabel(c) /\ ~Undecodable(r, c)

DecodeErrorKind(r, c) ==
  IF columns[c].decl_type = Some("JSON") /\ rows[r][c][1] = "Text" THEN "JsonSyntax"
  ELSE "InvalidColumnType"

\* the leaf of a decodable cell (JSON and INTEGER are the labels of Labels)
LeafOf(r, c) ==
  IF columns[c].decl_type = Some("JSON") THEN TreeOf(rows[r][c][2])
  ELSE <<"int", rows[r][c][2]>>

ColumnNames == {columns[c].name : c \in ColIdx}
LastNamed(n) == CHOOSE c \in ColIdx :
                  columns[c].name = n /\ \A d \in ColIdx : columns[d].name = n => d <= c
AssembledRow(r) == <<"object", [n \in ColumnNames |-> LeafOf(r, LastNamed(n))]>>

Converts(r) == from_value(target, AssembledRow(r))[1]

Before(r1, c1, r2, c2) == r1 < r2 \/ (r1 = r2 /\ c1 < c2)
HasUndecodable == \E r \in RowIdx, c \in ColIdx : Undecodable(r, c)
\* <<0, 0>> when every cell of a recognized column can be decoded
FirstUndecodable ==
  IF HasUndecodable
  THEN CHOOSE rc \in RowIdx \X ColIdx :
         /\ Undecodable(rc[1], rc[2])
         /\ \A r \in RowIdx, c \in ColIdx : Undecodable(r, c) => ~Before(r, c, rc[1], rc[2])
  ELSE <<0, 0>>

StepFailed == IsErr(result) /\ result[2][1] = "StepFailed"
Returned == pc = "done"
UpTo(n) == [k \in 1..n |-> k]
CellsUpTo(r, n) == [k \in 1..n |-> <<r, k>>]
DecodedOfRow(r) == SelectSeq(decoded, LAMBDA d : d[1] = r)

\* ------------------------------------------------------------------ C1
\* C1 as stated: when some column has an unrecognized or absent label, parse_rows and
\* parse_rows_dynamic fail on that label before any row is fetched and before any
\* cell is decoded, whatever the number of rows (zero included).
C1_AsStated ==
  (entry \in Collectors /\ HasUnknown /\ Returned /\ ~StepFailed) =>
    (IsPanic(result) /\ fetched = <<>> /\ decoded = <<>>)

\* C1 (amended): the label is looked at only while a row is decoded.  With zero rows
\* the call succeeds with the empty sequence.  Otherwise exactly the first row is
\* fetched and its columns before the first unrecognized one are decoded in order:
\* the first of them that cannot be decoded ends the call with its decode error,
\* and if there is none the call panics on the first unrecognized label.  A failing
\* iterator ends the call before any row is fetched.
C1_FailsAtFirstRow ==
  (entry \in Collectors /\ HasUnknown /\ Returned) =>
    IF StepFailed THEN fetched = <<>> /\ decoded = <<>>
    ELSE IF NumRows = 0 THEN result = Ok(<<>>) /\ fetched = <<>> /\ decoded = <<>>
    ELSE /\ fetched = <<1>>
         /\ IF \E c \in 1..(FirstUnknown - 1) : Undecodable(1, c)
            THEN LET c == FirstUndecodable[2] IN
                   /\ FirstUndecodable[1] = 1
                   /\ result = Err(DecodeErrorKind(1, c), 1, c)
                   /\ decoded = CellsUpTo(1, c)
            ELSE /\ result = Panic(PanicMessage(columns[FirstUnknown].decl_type))
                 /\ decoded = CellsUpTo(1, FirstUnknown - 1)

C1_Witness ==
  /\ entry = "parse_rows_dynamic" /\ Returned /\ NumRows = 2 /\ NumCols = 2
  /\ FirstUnknown = 2 /\ columns[2].decl_type = None
  /\ result = Panic(<<"Unknown column type", "UNKNOWN">>)
  /\ fetched = <<1>> /\ decoded = << <<1, 1>> >>

\* ------------------------------------------------------------------ C2
\* C2: a returning call of parse_rows or parse_rows_dynamic gives either a success
\* with exactly one element per row of the result set, or an error that carries no
\* rows; a proper prefix of the rows is never returned.
C2_AllOrNothing ==
  (entry \in Collectors /\ Returned) =>
    /\ result[1] \in {"Ok", "Err", "Panic"}
    /\ IsOk(result) => (Len(result[2]) = NumRows /\ result[2] = rows_data)
    /\ IsErr(result) => result[2][1] \in {"StepFailed", "InvalidColumnType",
                                          "JsonSyntax", "Conversion"}

C2_Witness ==
  /\ entry \in Collectors /\ Returned /\ IsErr(result) /\ ~StepFailed
  /\ Len(rows_data) = 1 /\ NumRows = 2

\* ------------------------------------------------------------------ C3
\* C3: when the iterator yields zero rows without error, parse_rows and
\* parse_rows_dynamic return success with the empty sequence, for any column
\* metadata.
C3_EmptyResultSet ==
  (entry \in Collectors /\ Returned /\ NumRows = 0 /\ ~StepFailed) => result = Ok(<<>>)

C3_Witness ==
  /\ entry = "parse_rows" /\ Returned /\ NumRows = 0 /\ HasUnknown /\ result = Ok(<<>>)

\* ------------------------------------------------------------------ C4
\* C4: on success over N rows every row was fetched exactly once, in the iterator's
\* order, and the output has length N with element k the decoding of the k-th row.
C4_OrderPreserved ==
  (entry \in Collectors /\ Returned /\ IsOk(result)) =>
    /\ fetched = UpTo(NumRows)
    /\ Len(result[2]) = NumRows
    /\ \A k \in RowIdx :
         /\ RowDecodes(k)
         /\ DecodedOfRow(k) = CellsUpTo(k, NumCols)
         /\ result[2][k] = IF entry = "parse_rows"
                           THEN from_value(target, AssembledRow(k))[2]
                           ELSE AssembledRow(k)

C4_Witness ==
  /\ entry \in Collectors /\ Returned /\ IsOk(result) /\ NumRows = 2 /\ NumCols = 2
  /\ result[2][1] # result[2][2]

\* ------------------------------------------------------------------ C5
\* C5 as stated: whenever parse_row succeeds, the Assembled Row has as many entries
\* as the metadata has columns, also when two columns carry the same name.
C5_AsStated ==
  parsed_row[1] = "object" => Cardinality(DOMAIN parsed_row[2]) = NumCols

\* C5 (amended): whenever parse_row succeeds, the Assembled Row has one entry per
\* distinct column name of the metadata; that is the number of columns exactly when
\* no two columns share a name.
C5_OneEntryPerName ==
  parsed_row[1] = "object" =>
    /\ Cardinality(DOMAIN parsed_row[2]) = Cardinality(ColumnNames)
    /\ (Cardinality(DOMAIN parsed_row[2]) = NumCols
          <=> \A c, d \in ColIdx : columns[c].name = columns[d].name => c = d)

C5_Witness ==
  /\ entry = "parse_row" /\ Returned /\ IsOk(result) /\ NumCols = 2
  /\ columns[1].name = columns[2].name
  /\ Cardinality(DOMAIN parsed_row[2]) = 1

\* ------------------------------------------------------------------ C6
\* C6: when parse_row succeeds, a name shared by several columns maps to the decoded
\* value of the highest-indexed of them, and every other name maps to its own
\* column's decoded value.
C6_LastWriteWins ==
  parsed_row[1] = "object" =>
    /\ DOMAIN parsed_row[2] = ColumnNames
    /\ \A n \in ColumnNames : parsed_row[2][n] = LeafOf(pos, LastNamed(n))

C6_Witness ==
  /\ parsed_row[1] = "object" /\ NumCols = 2
  /\ columns[1] = [name |-> "id", decl_type |-> Some("INTEGER")]
  /\ columns[2] = [name |-> "id", decl_type |-> Some("INTEGER")]
  /\ rows[pos] = <<CInt(1), CInt(2)>>
  /\ parsed_row[2]["id"] = <<"int", 2>>

\* ------------------------------------------------------------------ C7
\* C7: in parse_rows, if row k is the first row the deserializer rejects and all
\* earlier rows decoded and converted, the call returns that conversion error, no
\* list, and no row after k is fetched or decoded.
C7_ConversionAborts ==
  (entry = "parse_rows" /\ Returned /\ ~StepFailed) =>
    \A k \in RowIdx :
      ( /\ \A r \in 1..k : RowDecodes(r)
        /\ \A r \in 1..(k - 1) : Converts(r)
        /\ ~Converts(k) )
      => /\ result = Err("Conversion", k, 0)
         /\ fetched = UpTo(k)
         /\ \A n \in 1..Len(decoded) : decoded[n][1] <= k

C7_Witness ==
  /\ entry = "parse_rows" /\ Returned /\ NumRows = 2
  /\ result = Err("Conversion", 1, 0)
  /\ \E c \in ColIdx : Undecodable(2, c)
  /\ fetched = <<1>>

\* ------------------------------------------------------------------ C9
\* C9 as stated: when some cell of a recognized column cannot be decoded, parse_rows
\* and parse_rows_dynamic halt at the first such cell in row order then column
\* order, return that cell's decode error, fetch no further row and discard the rows
\* accumulated so far.
C9_AsStated ==
  (entry \in Collectors /\ Returned /\ ~StepFailed /\ HasUndecodable) =>
    LET r == FirstUndecodable[1]
        c == FirstUndecodable[2] IN
      /\ result = Err(DecodeErrorKind(r, c), r, c)
      /\ fetched = UpTo(r)

\* C9 (amended): the same, provided the call reaches that cell: no cell of a column
\* with an unrecognized label precedes it in row order then column order, in
\* parse_rows the deserializer accepts every earlier row, and the iterator does not
\* fail first.
ReachesFirstUndecodable ==
  LET r == FirstUndecodable[1]
      c == FirstUndecodable[2] IN
    /\ HasUnknown => (r = 1 /\ c < FirstUnknown)
    /\ entry = "parse_rows" => \A q \in 1..(r - 1) : Converts(q)

C9_FailFast ==
  (entry \in Collectors /\ Returned /\ ~StepFailed /\ HasUndecodable
     /\ ReachesFirstUndecodable) =>
    LET r == FirstUndecodable[1]
        c == FirstUndecodable[2] IN
      /\ result = Err(DecodeErrorKind(r, c), r, c)
      /\ fetched = UpTo(r)
      /\ Len(rows_data) = r - 1
      /\ decoded[Len(decoded)] = <<r, c>>

C9_Witness ==
  /\ entry = "parse_rows_dynamic" /\ Returned /\ NumRows = 2 /\ NumCols = 2
  /\ FirstUndecodable = <<2, 1>> /\ Undecodable(2, 2) /\ rows[2][1] = CNull
  /\ result = Err("InvalidColumnType", 2, 1)
  /\ Len(rows_data) = 1

\* ------------------------------------------------------------------ C10
\* C10: within one row the columns are processed in index order up to the first
\* failing one: with i the first column whose cell cannot be decoded and j the first
\* column with an unrecognized label, i < j returns the decode error and no panic
\* happens, and j < i panics on column j with column i never decoded.
C10_FirstFailingColumn ==
  (entry \in Collectors \cup {"parse_row"} /\ Returned /\ pos >= 1 /\ HasUnknown
     /\ \E c \in ColIdx : Undecodable(pos, c)) =>
    LET ci == CHOOSE c \in ColIdx :
                Undecodable(pos, c) /\ \A d \in 1..(c - 1) : ~Undecodable(pos, d)
        cj == FirstUnknown IN
      IF ci < cj
      THEN /\ result = Err(DecodeErrorKind(pos, ci), pos, ci)
           /\ DecodedOfRow(pos) = CellsUpTo(pos, ci)
      ELSE /\ result = Panic(PanicMessage(columns[cj].decl_type))
           /\ DecodedOfRow(pos) = CellsUpTo(pos, cj - 1)
           /\ \A n \in 1..Len(decoded) : decoded[n] # <<pos, ci>>

C10_Witness ==
  /\ entry = "parse_row" /\ Returned /\ NumCols = 2
  /\ UnknownLabel(1) /\ Undecodable(1, 2)
  /\ IsPanic(result) /\ decoded = <<>>

====
